---------------------------- MODULE Spec2Model ----------------------------
(***************************************************************************)
(* Model of the lab_control feedback core:                                 *)
(*   - control/pid_controller.py : PIDController                           *)
(*   - control/feedback_loop.py  : FeedbackLoop (caller thread + workers)  *)
(*                                                                         *)
(* Real numbers are exact rationals [n |-> numerator, d |-> denominator]   *)
(* in lowest terms with d > 0.  Wall-clock readings (time.time()) are      *)
(* integers counting milliseconds; an elapsed time is the rational         *)
(* (t2 - t1) / 1000 seconds, as in the source.                             *)
(***************************************************************************)
EXTENDS Integers, Sequences, FiniteSets, TLC

VARIABLES
    pid,            \* PIDController fields
    pid_out,        \* value returned by the latest PIDController.update call
    pid_calls,      \* update and set_gains calls in progress: their frames
    app,            \* LabControlApplication: its hardware references, its
                    \* feedback_loop reference, the FeedbackLoop objects it
                    \* has created and the position of its caller
    running,        \* FeedbackLoop._running
    stop_event,     \* FeedbackLoop._stop_event (TRUE = set)
    thread,         \* FeedbackLoop._thread (0 = None, else a worker id)
    setpoint,       \* FeedbackLoop.setpoint (NoSetpoint = None)
    last_error,     \* FeedbackLoop.last_error
    last_output,    \* FeedbackLoop.last_control_output
    loop_count,     \* FeedbackLoop.loop_count
    error_history,  \* FeedbackLoop.error_history
    output_history, \* FeedbackLoop.output_history
    workers,        \* threads created by start(): id -> frame of _control_loop
    caller,         \* position of the caller thread ("idle" or "joining")
    last_call,      \* the latest start()/stop() call (or controller call)
    cycles,         \* spy: how many cycles ended in which way, and how
                    \* many controller.update calls the loop has made
    board,      \* spy board: set_laser_power() calls, normal returns, latest value
    pairs,          \* spy: the (error, output) pairs of the cycles that have
                    \* appended to both histories, in that order
    stats           \* the result of get_statistics(), as far as the caller
                    \* has evaluated it (NoValue before the first call)

vars == << pid, pid_out, pid_calls, app, running, stop_event, thread,
           setpoint, last_error, last_output, loop_count, error_history,
           output_history, workers, caller, last_call, cycles, board, pairs,
           stats >>

loopVars == << running, stop_event, thread, setpoint, last_error,
               last_output, loop_count, error_history, output_history,
               workers, caller, last_call, cycles, board, pairs, stats >>

---------------------------------------------------------------------------
(* Bounds of the model *)

MaxErr == 2          \* controller errors range over -MaxErr .. MaxErr
MaxClock == 2        \* clock readings range over 0 .. MaxClock (ms)
MaxIntegral == 4     \* |integral| <= MaxIntegral / 1000

---------------------------------------------------------------------------
(* Exact rational arithmetic.  The operations are functions, so that an  *)
(* argument is evaluated once, where it is applied.                      *)

Abs(x) == IF x < 0 THEN -x ELSE x

GCD[a \in Nat, b \in Nat] == IF b = 0 THEN a ELSE GCD[b, a % b]

Rational == [n : Int, d : Int]

\* the rational n / d (d # 0) in lowest terms with a positive denominator
Rat[n \in Int, d \in Int] ==
    LET s == IF d < 0 THEN -1 ELSE 1
        g == GCD[Abs(n), Abs(d)]
    IN  [n |-> (s * n) \div g, d |-> (s * d) \div g]

RInt(i) == [n |-> i, d |-> 1]
RAdd[x \in Rational, y \in Rational] == Rat[x.n * y.d + y.n * x.d, x.d * y.d]
RSub[x \in Rational, y \in Rational] == Rat[x.n * y.d - y.n * x.d, x.d * y.d]
RMul[x \in Rational, y \in Rational] == Rat[x.n * y.n, x.d * y.d]
RDiv[x \in Rational, y \in Rational] == Rat[x.n * y.d, x.d * y.n]
RLe[x \in Rational, y \in Rational] == x.n * y.d <= y.n * x.d
RLt[x \in Rational, y \in Rational] == x.n * y.d < y.n * x.d
RMax[x \in Rational, y \in Rational] == IF RLt[x, y] THEN y ELSE x
RMin[x \in Rational, y \in Rational] == IF RLt[y, x] THEN y ELSE x
RAbs[x \in Rational] == [n |-> Abs(x.n), d |-> x.d]

---------------------------------------------------------------------------
(* control/pid_controller.py *)

\* dt = 0.001 of PIDController.update, in seconds
DT_FLOOR == Rat[1, 1000]

\* Mutant of Clip: the upper limit is not applied.
ClipLowerOnly(x, lo, hi) == RMax[x, lo]

\* np.clip(x, lo, hi) = minimum(maximum(x, lo), hi)
Clip(x, lo, hi) == RMin[RMax[x, lo], hi]

\* PIDController.__init__ with the clock reading `now`
PIDInit(kp, ki, kd, lo, hi, now) ==
    [kp |-> kp, ki |-> ki, kd |-> kd, output_min |-> lo, output_max |-> hi,
     integral |-> RInt(0), last_error |-> RInt(0), last_time |-> now]

\* Mutant of PIDDt: the floor replaces an elapsed time of zero only.
PIDDtZeroOnly(c, now) ==
    LET dt0 == Rat[now - c.last_time, 1000]
    IN  IF dt0 = RInt(0) THEN DT_FLOOR ELSE dt0

\* dt of PIDController.update: the time since the previous call in
\* seconds, 0.001 if that is zero or negative
PIDDt(c, now) ==
    LET dt0 == Rat[now - c.last_time, 1000]
    IN  IF RLe[dt0, RInt(0)] THEN DT_FLOOR ELSE dt0

\* Mutant of PIDUpdate: the integral gain is not applied to the integral.
PIDUpdateUnscaledIntegral(c, error, now) ==
    LET dt0 == Rat[now - c.last_time, 1000]
        dt == IF RLe[dt0, RInt(0)] THEN DT_FLOOR ELSE dt0
        p_term == RMul[c.kp, error]
        integral1 == RAdd[c.integral, RMul[error, dt]]
        i_term == integral1
        derivative == RDiv[RSub[error, c.last_error], dt]
        d_term == RMul[c.kd, derivative]
        raw == RAdd[RAdd[p_term, i_term], d_term]
        output == Clip(raw, c.output_min, c.output_max)
        integral2 == IF output # raw THEN RSub[integral1, RMul[error, dt]]
                                     ELSE integral1
    IN  [ctrl |-> [c EXCEPT !.integral = integral2,
                            !.last_error = error,
                            !.last_time = now],
         out |-> output]

\* Mutant of PIDUpdate: the integration is undone only when the output
\* is cut at the upper limit.
PIDUpdateUpperWindupOnly(c, error, now) ==
    LET dt0 == Rat[now - c.last_time, 1000]
        dt == IF RLe[dt0, RInt(0)] THEN DT_FLOOR ELSE dt0
        p_term == RMul[c.kp, error]
        integral1 == RAdd[c.integral, RMul[error, dt]]
        i_term == RMul[c.ki, integral1]
        derivative == RDiv[RSub[error, c.last_error], dt]
        d_term == RMul[c.kd, derivative]
        raw == RAdd[RAdd[p_term, i_term], d_term]
        output == Clip(raw, c.output_min, c.output_max)
        integral2 == IF RLt[output, raw]
                     THEN RSub[integral1, RMul[error, dt]]
                     ELSE integral1
    IN  [ctrl |-> [c EXCEPT !.integral = integral2,
                            !.last_error = error,
                            !.last_time = now],
         out |-> output]

\* Mutant of PIDUpdate: the integration is never undone (no anti-windup).
PIDUpdateNoAntiWindup(c, error, now) ==
    LET dt0 == Rat[now - c.last_time, 1000]
        dt == IF RLe[dt0, RInt(0)] THEN DT_FLOOR ELSE dt0
        p_term == RMul[c.kp, error]
        integral1 == RAdd[c.integral, RMul[error, dt]]
        i_term == RMul[c.ki, integral1]
        derivative == RDiv[RSub[error, c.last_error], dt]
        d_term == RMul[c.kd, derivative]
        raw == RAdd[RAdd[p_term, i_term], d_term]
        output == Clip(raw, c.output_min, c.output_max)
    IN  [ctrl |-> [c EXCEPT !.integral = integral1,
                            !.last_error = error,
                            !.last_time = now],
         out |-> output]

\* PIDController.update(error) with the clock reading `now`:
\* the controller after the call and the value returned.
PIDUpdate(c, error, now) ==
    LET dt == PIDDt(c, now)
        p_term == RMul[c.kp, error]
        integral1 == RAdd[c.integral, RMul[error, dt]]
        i_term == RMul[c.ki, integral1]
        derivative == RDiv[RSub[error, c.last_error], dt]
        d_term == RMul[c.kd, derivative]
        raw == RAdd[RAdd[p_term, i_term], d_term]
        output == Clip(raw, c.output_min, c.output_max)
        integral2 == IF output # raw THEN RSub[integral1, RMul[error, dt]]
                                     ELSE integral1
    IN  [ctrl |-> [c EXCEPT !.integral = integral2,
                            !.last_error = error,
                            !.last_time = now],
         out |-> output]

\* Mutant of PIDReset: the previous error is kept.
PIDResetKeepsError(c, now) ==
    [c EXCEPT !.integral = RInt(0), !.last_time = now]

\* PIDController.reset() with the clock reading `now`
PIDReset(c, now) ==
    [c EXCEPT !.integral = RInt(0), !.last_error = RInt(0), !.last_time = now]

\* Mutant of PIDSetGains: the integral is cleared with the new gains.
PIDSetGainsClears(c, kp, ki, kd) ==
    [c EXCEPT !.kp = kp, !.ki = ki, !.kd = kd, !.integral = RInt(0)]

\* PIDController.set_gains(kp, ki, kd)
PIDSetGains(c, kp, ki, kd) == [c EXCEPT !.kp = kp, !.ki = ki, !.kd = kd]

\* Frames of the calls in progress on the controller.  update: its
\* position and its locals error, dt, current_time, p_term, i_term,
\* d_term.  set_gains: its position, its arguments, and the gains the
\* controller had when it was called.  reset: its position, the clock
\* reading of line 82, and whether an update call was under way when it
\* was entered.
NoCalls ==
    [update |-> [pc |-> "idle", error |-> RInt(0), dt |-> RInt(0), now |-> 0,
                 p_term |-> RInt(0), i_term |-> RInt(0),
                 d_term |-> RInt(0)],
     set_gains |-> [pc |-> "idle", kp |-> RInt(0), ki |-> RInt(0),
                    kd |-> RInt(0),
                    old |-> [kp |-> RInt(0), ki |-> RInt(0),
                             kd |-> RInt(0)]],
     reset |-> [pc |-> "idle", now |-> 0, during |-> FALSE]]

---------------------------------------------------------------------------
(* core/app.py : state *)

\* FeedbackLoop objects one application creates
MaxLoops == 2

LoopIds == 1 .. MaxLoops

\* a FeedbackLoop that start_feedback_loop has not created
NoLoop == [running |-> FALSE, stop_event |-> FALSE, pc |-> "unborn"]

\* LabControlApplication.__init__: no camera, no board, no feedback loop
\* (feedback_loop: 0 = None, else the FeedbackLoop the attribute refers to)
AppInit ==
    [camera |-> FALSE, adwin |-> FALSE, feedback_loop |-> 0,
     loops |-> [l \in LoopIds |-> NoLoop], caller |-> "idle"]

---------------------------------------------------------------------------
(* control/feedback_loop.py : state *)

MaxWorkers == 2      \* threads start() may create in one run of the model
MaxCycles == 2       \* cycles begun (acquire_image requests), all workers

\* loop_rate_hz = 10.0: the period in milliseconds
PERIOD_MS == 100

\* len(self.error_history) > 1000
HISTORY_CAP == 1000

NoSetpoint == [none |-> TRUE]
NoValue == [none |-> TRUE]
NoOutput == [none |-> TRUE]

WorkerIds == 1 .. MaxWorkers

\* ControlSetpoint objects the caller passes to set_setpoint
\* (tolerance is stored and never read)
Setpoints ==
    { [target_value |-> RInt(256), parameter_name |-> "centroid_x"] }

\* ControlSetpoint objects an operator passes to set_setpoint to change
\* the target while the loop runs
Retargets ==
    { [target_value |-> RInt(20), parameter_name |-> "centroid_y"] }

\* ProcessingResult.features returned by processor.process(image)
FeatureMaps ==
    { [centroid_x |-> RInt(200), centroid_y |-> RInt(12)],
      [centroid_x |-> NoValue, centroid_y |-> NoValue] }

\* features[name], NoValue when the map has no entry of that name
FeatureEntry(features, name) ==
    IF name = "centroid_x" THEN features.centroid_x ELSE features.centroid_y

\* Mutant of FeatureGet: another default value.
FeatureGetDefaultOne(features, name) ==
    IF FeatureEntry(features, name) = NoValue
    THEN RInt(1) ELSE FeatureEntry(features, name)

\* result.features.get(name, 0.0)
FeatureGet(features, name) ==
    IF FeatureEntry(features, name) = NoValue
    THEN RInt(0) ELSE FeatureEntry(features, name)

\* frame of a thread that start() has not created
\* (lookup: the Setpoint object whose parameter_name line 114 read)
Unborn == [pc |-> "unborn", features |-> NoValue, lookup |-> NoValue,
           measured |-> NoValue, error |-> NoValue, output |-> NoValue,
           count |-> NoValue, since_stop |-> 0]

\* frame of _control_loop outside the try block: the cycle's locals are dead
Outside(f, pc) == [f EXCEPT !.pc = pc, !.features = NoValue,
                            !.lookup = NoValue, !.measured = NoValue,
                            !.error = NoValue, !.output = NoValue,
                            !.count = NoValue]

\* a thread that exists and has not returned from _control_loop
Alive(f) == f.pc \notin {"unborn", "done"}

\* a thread inside the try block of a cycle (lines 98-143)
InCycle(f) ==
    f.pc \in {"acquire", "process", "setpoint", "control", "board", "count",
              "count_store", "append_error", "append"}

\* a thread inside a call to the camera, the pipeline or the board
InCall(f) == f.pc \in {"acquire", "process", "board"}

LiveWorkers == {w \in WorkerIds : Alive(workers[w])}
CycleWorkers == {w \in WorkerIds : InCycle(workers[w])}

\* cycles that have ended, and acquire_image requests issued so far
CyclesEnded ==
    cycles.none + cycles.no_setpoint + cycles.fault + cycles.ok
CyclesBegun == CyclesEnded + Cardinality(CycleWorkers)

\* FeedbackLoop.__init__ (the fields of the loop and the spies)
LoopInit ==
    /\ running = FALSE
    /\ stop_event = FALSE
    /\ thread = 0
    /\ setpoint = NoSetpoint
    /\ last_error = RInt(0)
    /\ last_output = RInt(0)
    /\ loop_count = 0
    /\ error_history = << >>
    /\ output_history = << >>
    /\ workers = [w \in WorkerIds |-> Unborn]
    /\ caller = "idle"
    /\ last_call = "none"
    /\ cycles = [none |-> 0, no_setpoint |-> 0, fault |-> 0, ok |-> 0,
                 updates |-> 0]
    /\ board = [calls |-> 0, returned |-> 0, last |-> NoValue]
    /\ pairs = << >>
    /\ stats = NoValue

---------------------------------------------------------------------------
(* The controller on its own: any sequence of update, reset, set_gains *)

PidGains == {RInt(0), RInt(1)}
PidLimits == { <<RInt(0), RInt(100)>>, <<RInt(-1), RInt(1)>>,
               <<RInt(1), RInt(1)>> }
PidErrors == {RInt(e) : e \in -MaxErr .. MaxErr}
PidTimes == 0 .. MaxClock

IntegralInRange(c) == RLe[RAbs[c.integral], Rat[MaxIntegral, 1000]]

InitPID ==
    /\ \E kp \in PidGains, ki \in PidGains, kd \in PidGains,
          lim \in PidLimits, now \in PidTimes :
          pid = PIDInit(kp, ki, kd, lim[1], lim[2], now)
    /\ pid_out = NoOutput
    /\ pid_calls = NoCalls
    /\ app = AppInit
    /\ LoopInit

PidUpdate(error, now) ==
    LET r == PIDUpdate(pid, error, now) IN
    /\ IntegralInRange(r.ctrl)
    /\ pid' = r.ctrl
    /\ pid_out' = r.out
    /\ last_call' = "update"
    /\ UNCHANGED << stats, pairs, running, stop_event, thread, setpoint,
                    last_error, last_output, loop_count, error_history,
                    output_history, workers, caller, cycles, board,
                    pid_calls, app >>

PidReset(now) ==
    /\ pid' = PIDReset(pid, now)
    /\ last_call' = "reset"
    /\ UNCHANGED << stats, pairs, pid_out, pid_calls, app, running, stop_event,
                    thread, setpoint, last_error, last_output, loop_count,
                    error_history, output_history, workers, caller, cycles,
                    board >>

PidSetGains(kp, ki, kd) ==
    /\ pid' = PIDSetGains(pid, kp, ki, kd)
    /\ last_call' = "set_gains"
    /\ UNCHANGED << stats, pairs, pid_out, pid_calls, app, running, stop_event,
                    thread, setpoint, last_error, last_output, loop_count,
                    error_history, output_history, workers, caller, cycles,
                    board >>

NextPID ==
    \/ \E e \in PidErrors, now \in PidTimes : PidUpdate(e, now)
    \/ \E now \in PidTimes : PidReset(now)
    \/ \E kp \in PidGains, ki \in PidGains, kd \in PidGains :
          PidSetGains(kp, ki, kd)

SpecPID == InitPID /\ [][NextPID]_vars

\* C1: every value update() returns lies within the output limits the
\* controller was constructed with (output_min <= output <= output_max),
\* whatever the error and whatever update/reset/set_gains calls came before.
C1_OutputWithinLimits ==
    pid_out # NoOutput =>
        /\ RLe[pid.output_min, pid_out]
        /\ RLe[pid_out, pid.output_max]

\* C1 witness: an update with a non-zero derivative gain and the largest
\* error has returned the upper limit of a non-degenerate range.
C1_Witness ==
    /\ last_call = "update"
    /\ pid_out = pid.output_max
    /\ pid.kd # RInt(0)
    /\ pid.last_error = RInt(MaxErr)
    /\ RLt[pid.output_min, pid.output_max]

\* C19: with ki = 0 and kd = 0 an update returns kp * error cut to the
\* output limits, whatever updates, resets and gain changes came before
\* and whatever the elapsed times were.
C19_ProportionalOnly ==
    (last_call = "update" /\ pid.ki = RInt(0) /\ pid.kd = RInt(0)) =>
        LET p == RMul[pid.kp, pid.last_error] IN
        pid_out = IF RLt[p, pid.output_min] THEN pid.output_min
                  ELSE IF RLt[pid.output_max, p] THEN pid.output_max
                  ELSE p

\* C19 witness: a controller with ki = kd = 0 that has integrated earlier
\* errors returns kp * error, inside the limits.
C19_Witness ==
    /\ last_call = "update"
    /\ pid.ki = RInt(0)
    /\ pid.kd = RInt(0)
    /\ pid.kp = RInt(1)
    /\ pid.integral # RInt(0)
    /\ pid.last_error = RInt(1)
    /\ pid_out = RInt(1)
    /\ pid.output_max = RInt(100)

---------------------------------------------------------------------------
(* control/feedback_loop.py : the caller's operations *)

SetFrame(w, f) == [workers EXCEPT ![w] = f]

\* the thread start() creates: the next frame not yet used
FreeIds == {w \in WorkerIds : workers[w].pc = "unborn"}
NewThread == CHOOSE w \in FreeIds : \A v \in FreeIds : w <= v

\* Mutant of Start: the running flag is not consulted.
StartUnguarded ==
    /\ caller = "idle"
    /\ FreeIds # {}
    /\ running' = TRUE
    /\ stop_event' = FALSE
    /\ thread' = NewThread
    /\ workers' = [v \in WorkerIds |->
                     IF v = NewThread THEN Outside(Unborn, "top")
                     ELSE [workers[v] EXCEPT !.since_stop = 0]]
    /\ last_call' = IF running THEN "start_noop" ELSE "start"
    /\ UNCHANGED << stats, pairs, pid, pid_out, pid_calls, app, setpoint,
                    last_error, last_output, loop_count, error_history,
                    output_history, caller, cycles, board >>

\* Mutant of Start: the stop event is not cleared.
StartKeepsEvent ==
    /\ caller = "idle"
    /\ IF running
       THEN /\ last_call' = "start_noop"
            /\ UNCHANGED << running, stop_event, thread, workers >>
       ELSE /\ FreeIds # {}
            /\ running' = TRUE
            /\ stop_event' = stop_event
            /\ thread' = NewThread
            /\ workers' = [v \in WorkerIds |->
                             IF v = NewThread THEN Outside(Unborn, "top")
                             ELSE [workers[v] EXCEPT !.since_stop = 0]]
            /\ last_call' = "start"
    /\ UNCHANGED << stats, pairs, pid, pid_out, pid_calls, app, setpoint,
                    last_error, last_output, loop_count, error_history,
                    output_history, caller, cycles, board >>

\* FeedbackLoop.start()
Start ==
    /\ caller = "idle"
    /\ IF running
       THEN /\ last_call' = "start_noop"
            /\ UNCHANGED << running, stop_event, thread, workers >>
       ELSE /\ FreeIds # {}
            /\ running' = TRUE
            /\ stop_event' = FALSE
            /\ thread' = NewThread
            /\ workers' = [v \in WorkerIds |->
                             IF v = NewThread THEN Outside(Unborn, "top")
                             ELSE [workers[v] EXCEPT !.since_stop = 0]]
            /\ last_call' = "start"
    /\ UNCHANGED << stats, pairs, pid, pid_out, pid_calls, app, setpoint,
                    last_error, last_output, loop_count, error_history,
                    output_history, caller, cycles, board >>

\* Mutant of StopBegin: the running flag is not consulted.
StopUnguarded ==
    /\ caller = "idle"
    /\ running' = FALSE
    /\ stop_event' = TRUE
    /\ caller' = IF thread # 0 THEN "joining" ELSE "idle"
    /\ last_call' = IF ~running THEN "stop_noop" ELSE "stop"
    /\ UNCHANGED << stats, pairs, pid, pid_out, pid_calls, app, thread,
                    setpoint, last_error, last_output, loop_count,
                    error_history, output_history, workers, cycles, board >>

\* FeedbackLoop.stop() up to the join: lines 82-87
StopBegin ==
    /\ caller = "idle"
    /\ IF ~running
       THEN /\ last_call' = "stop_noop"
            /\ UNCHANGED << running, stop_event, caller >>
       ELSE /\ running' = FALSE
            /\ stop_event' = TRUE
            /\ caller' = IF thread # 0 THEN "joining" ELSE "idle"
            /\ last_call' = "stop"
    /\ UNCHANGED << stats, pairs, pid, pid_out, pid_calls, app, thread,
                    setpoint, last_error, last_output, loop_count,
                    error_history, output_history, workers, cycles, board >>

\* Mutant of JoinReturn: join() without a timeout.
JoinNoTimeout ==
    /\ caller = "joining"
    /\ ~Alive(workers[thread])
    /\ caller' = "idle"
    /\ UNCHANGED << stats, pairs, last_call, pid, pid_out, pid_calls, app,
                    running, stop_event, thread, setpoint, last_error,
                    last_output, loop_count, error_history, output_history,
                    workers, cycles, board >>

\* FeedbackLoop.stop(), line 88: join(timeout=2.0) returns, because the
\* thread has ended or because the two seconds are over.  Two seconds pass
\* only while the thread is inside a collaborator call: its other steps
\* take no time on that scale, and the wait of line 152 ends at once when
\* the event is set.
JoinReturn ==
    /\ caller = "joining"
    /\ ~Alive(workers[thread]) \/ InCall(workers[thread])
    /\ caller' = "idle"
    /\ UNCHANGED << stats, pairs, last_call, pid, pid_out, pid_calls, app,
                    running, stop_event, thread, setpoint, last_error,
                    last_output, loop_count, error_history, output_history,
                    workers, cycles, board >>

\* FeedbackLoop.set_setpoint(sp)
SetSetpoint(sp) ==
    /\ caller = "idle"
    /\ setpoint' = sp
    /\ UNCHANGED last_call
    /\ UNCHANGED << stats, pairs, pid, pid_out, pid_calls, app, running,
                    stop_event, thread, last_error, last_output, loop_count,
                    error_history, output_history, workers, caller, cycles,
                    board >>

---------------------------------------------------------------------------
(* control/feedback_loop.py : get_statistics, on the caller's thread *)

\* np.sum of a list of numbers
SumSeq[s \in Seq(Rational)] ==
    IF s = << >> THEN RInt(0) ELSE RAdd[Head(s), SumSeq[Tail(s)]]

\* np.mean of a non-empty list
Mean(s) == RDiv[SumSeq[s], RInt(Len(s))]

\* np.mean(np.array(s)**2) of a non-empty list: the square of the
\* rms_error that np.sqrt then yields (zero exactly when this is zero)
MeanSquare(s) == Mean([i \in 1 .. Len(s) |-> RMul[s[i], s[i]]])

\* the caller is inside get_statistics: the dict entry it evaluates next
StatPcs == {"stat_last_error", "stat_last_output", "stat_rms", "stat_mean"}

\* the other steps of the caller leave these alone
StatFrame ==
    UNCHANGED << pid, pid_out, pid_calls, app, running, stop_event, thread,
                 setpoint, last_error, last_output, loop_count, error_history,
                 output_history, workers, last_call, cycles, board, pairs >>

\* line 157: "loop_count": self.loop_count
StatCount ==
    /\ caller = "idle"
    /\ stats' = [loop_count |-> loop_count, last_error |-> NoValue,
                 last_output |-> NoValue, rms_error_sq |-> NoValue,
                 mean_output |-> NoValue, n_errors |-> NoValue,
                 n_outputs |-> NoValue]
    /\ caller' = "stat_last_error"
    /\ StatFrame

\* line 158: "last_error": self.last_error
StatLastError ==
    /\ caller = "stat_last_error"
    /\ stats' = [stats EXCEPT !.last_error = last_error]
    /\ caller' = "stat_last_output"
    /\ StatFrame

\* line 159: "last_output": self.last_control_output
StatLastOutput ==
    /\ caller = "stat_last_output"
    /\ stats' = [stats EXCEPT !.last_output = last_output]
    /\ caller' = "stat_rms"
    /\ StatFrame

\* Mutant of StatRms: the history is read under a lock that the thread
\* holds for the whole cycle.
StatRmsLocked ==
    /\ caller = "stat_rms"
    /\ CycleWorkers = {}
    /\ stats' = [stats EXCEPT
                   !.rms_error_sq = IF error_history = << >> THEN RInt(0)
                                    ELSE MeanSquare(error_history),
                   !.n_errors = Len(error_history)]
    /\ caller' = "stat_mean"
    /\ StatFrame

\* lines 160-161: np.sqrt(np.mean(np.array(self.error_history)**2))
\* if self.error_history else 0.0  (n_errors: the length of the list read)
StatRms ==
    /\ caller = "stat_rms"
    /\ stats' = [stats EXCEPT
                   !.rms_error_sq = IF error_history = << >> THEN RInt(0)
                                    ELSE MeanSquare(error_history),
                   !.n_errors = Len(error_history)]
    /\ caller' = "stat_mean"
    /\ StatFrame

\* Mutant of StatMean: the mean is taken of an empty list too (NaN).
StatMeanUnguarded ==
    /\ caller = "stat_mean"
    /\ stats' = [stats EXCEPT
                   !.mean_output = IF output_history = << >> THEN NoValue
                                   ELSE Mean(output_history),
                   !.n_outputs = Len(output_history)]
    /\ caller' = "idle"
    /\ StatFrame

\* lines 162-164: np.mean(self.output_history) if self.output_history
\* else 0.0; the dict is returned  (n_outputs: the length of the list read)
StatMean ==
    /\ caller = "stat_mean"
    /\ stats' = [stats EXCEPT
                   !.mean_output = IF output_history = << >> THEN RInt(0)
                                   ELSE Mean(output_history),
                   !.n_outputs = Len(output_history)]
    /\ caller' = "idle"
    /\ StatFrame

\* FeedbackLoop.get_statistics(), entry by entry
GetStatistics ==
    \/ StatCount \/ StatLastError \/ StatLastOutput \/ StatRms \/ StatMean

\* get_statistics() has returned and stats is what it returned
StatsReturned == stats # NoValue /\ caller \notin StatPcs

---------------------------------------------------------------------------
(* control/feedback_loop.py : _control_loop, one thread w *)

CycleEnded(how) == [cycles EXCEPT ![how] = @ + 1]

\* lines 149-152 after the try block: sleep_time = max(0, period - elapsed);
\* the thread waits on the stop event when sleep_time > 0, else it is back
\* at the loop condition
AfterTry(f) == {Outside(f, "wait"), Outside(f, "top")}

\* frame of a thread that has left the try block for line 149
Pacing(f) == Outside(f, "pace")

\* Mutant of Raised: the exception is not caught inside the loop.
RaisedFatal(w, f) ==
    /\ workers' = SetFrame(w, Outside(f, "done"))
    /\ cycles' = CycleEnded("fault")

\* lines 145-146: an exception raised in the try block is logged and the
\* thread goes on to the rate-keeping code of line 149
Raised(w, f) ==
    /\ workers' = SetFrame(w, Pacing(f))
    /\ cycles' = CycleEnded("fault")

\* Mutant of WTop: the loop condition is always true.
WTopUnchecked(w) ==
    /\ workers[w].pc = "top"
    /\ CyclesBegun < MaxCycles
    /\ workers' = SetFrame(w, [workers[w] EXCEPT !.pc = "acquire"])
    /\ UNCHANGED << stats, pairs, pid, pid_out, pid_calls, app, running,
                    stop_event, thread, setpoint, last_error, last_output,
                    loop_count, error_history, output_history, caller,
                    last_call, cycles, board >>

\* line 95: while self._running and not self._stop_event.is_set(),
\* in a run of the model with at most `cap` cycles
WTopUpTo(w, cap) ==
    /\ workers[w].pc = "top"
    /\ \/ /\ running /\ ~stop_event
          /\ CyclesBegun < cap
          /\ workers' = SetFrame(w, [workers[w] EXCEPT !.pc = "acquire"])
       \/ /\ ~(running /\ ~stop_event)
          /\ workers' = SetFrame(w, [workers[w] EXCEPT !.pc = "done"])
    /\ UNCHANGED << stats, pairs, pid, pid_out, pid_calls, app, running,
                    stop_event, thread, setpoint, last_error, last_output,
                    loop_count, error_history, output_history, caller,
                    last_call, cycles, board >>

WTop(w) == WTopUpTo(w, MaxCycles)

\* Mutant of WAcquire: a failed acquisition does not end the cycle.
WAcquireNoSkip(w) ==
    /\ workers[w].pc = "acquire"
    /\ \/ /\ workers' = SetFrame(w, [workers[w] EXCEPT !.pc = "process"])
          /\ UNCHANGED cycles
       \/ /\ workers' = SetFrame(w, [workers[w] EXCEPT !.pc = "process"])
          /\ cycles' = CycleEnded("none")
       \/ Raised(w, workers[w])
    /\ UNCHANGED << stats, pairs, pid, pid_out, pid_calls, app, running,
                    stop_event, thread, setpoint, last_error, last_output,
                    loop_count, error_history, output_history, caller,
                    last_call, board >>

\* lines 100-103: camera.acquire_image() returns an image, returns None
\* (continue: back to the loop condition) or raises
WAcquire(w) ==
    /\ workers[w].pc = "acquire"
    /\ \/ /\ workers' = SetFrame(w, [workers[w] EXCEPT !.pc = "process"])
          /\ UNCHANGED cycles
       \/ /\ workers' = SetFrame(w, Outside(workers[w], "top"))
          /\ cycles' = CycleEnded("none")
       \/ Raised(w, workers[w])
    /\ UNCHANGED << stats, pairs, pid, pid_out, pid_calls, app, running,
                    stop_event, thread, setpoint, last_error, last_output,
                    loop_count, error_history, output_history, caller,
                    last_call, board >>

\* line 106: processor.process(image) returns a result or raises
WProcess(w) ==
    /\ workers[w].pc = "process"
    /\ \/ /\ \E fm \in FeatureMaps :
                workers' = SetFrame(w, [workers[w] EXCEPT
                                          !.pc = "setpoint", !.features = fm])
          /\ UNCHANGED cycles
       \/ Raised(w, workers[w])
    /\ UNCHANGED << stats, pairs, pid, pid_out, pid_calls, app, running,
                    stop_event, thread, setpoint, last_error, last_output,
                    loop_count, error_history, output_history, caller,
                    last_call, board >>

\* Mutant of WSetpoint: without a setpoint the cycle still commands the
\* board, with the latest output.
WSetpointNoSkip(w) ==
    /\ workers[w].pc = "setpoint"
    /\ IF setpoint = NoSetpoint
       THEN /\ workers' = SetFrame(w, Outside(workers[w], "top"))
            /\ cycles' = CycleEnded("no_setpoint")
            /\ board' = [calls |-> board.calls + 1,
                         returned |-> board.returned + 1,
                         last |-> last_output]
       ELSE /\ workers' = SetFrame(w, [workers[w] EXCEPT
                            !.pc = "control",
                            !.lookup = setpoint,
                            !.measured = FeatureGet(workers[w].features,
                                                    setpoint.parameter_name)])
            /\ UNCHANGED << cycles, board >>
    /\ UNCHANGED << stats, pairs, pid, pid_out, pid_calls, app, running,
                    stop_event, thread, setpoint, last_error, last_output,
                    loop_count, error_history, output_history, caller,
                    last_call >>

\* lines 109-115: if self.setpoint is None: continue; else
\* measured_value = result.features.get(self.setpoint.parameter_name, 0.0)
WSetpoint(w) ==
    /\ workers[w].pc = "setpoint"
    /\ IF setpoint = NoSetpoint
       THEN /\ workers' = SetFrame(w, Outside(workers[w], "top"))
            /\ cycles' = CycleEnded("no_setpoint")
       ELSE /\ workers' = SetFrame(w, [workers[w] EXCEPT
                            !.pc = "control",
                            !.lookup = setpoint,
                            !.measured = FeatureGet(workers[w].features,
                                                    setpoint.parameter_name)])
            /\ UNCHANGED cycles
    /\ UNCHANGED << stats, pairs, pid, pid_out, pid_calls, app, running,
                    stop_event, thread, setpoint, last_error, last_output,
                    loop_count, error_history, output_history, caller,
                    last_call, board >>

\* Mutant of WControl: the error has the wrong sign.
WControlSwapped(w) ==
    /\ workers[w].pc = "control"
    /\ LET error == RSub[workers[w].measured, setpoint.target_value]
           r == PIDUpdate(pid, error, pid.last_time + PERIOD_MS)
       IN  /\ last_error' = error
           /\ pid' = r.ctrl
           /\ pid_out' = r.out
           /\ last_output' = r.out
           /\ workers' = SetFrame(w, [workers[w] EXCEPT !.pc = "board",
                                                        !.error = error,
                                                        !.output = r.out])
    /\ cycles' = [cycles EXCEPT !.updates = @ + 1]
    /\ UNCHANGED << stats, pairs, running, stop_event, thread, setpoint,
                    loop_count, error_history, output_history, caller,
                    last_call, board, pid_calls, app >>

\* lines 116-121: error = self.setpoint.target_value - measured_value;
\* self.last_error = error; control_output = self.controller.update(error);
\* self.last_control_output = control_output.  The clock has advanced by
\* one loop period since the controller's previous reading.
WControl(w) ==
    /\ workers[w].pc = "control"
    /\ LET error == RSub[setpoint.target_value, workers[w].measured]
           r == PIDUpdate(pid, error, pid.last_time + PERIOD_MS)
       IN  /\ last_error' = error
           /\ pid' = r.ctrl
           /\ pid_out' = r.out
           /\ last_output' = r.out
           /\ workers' = SetFrame(w, [workers[w] EXCEPT !.pc = "board",
                                                        !.error = error,
                                                        !.output = r.out])
    /\ cycles' = [cycles EXCEPT !.updates = @ + 1]
    /\ UNCHANGED << stats, pairs, running, stop_event, thread, setpoint,
                    loop_count, error_history, output_history, caller,
                    last_call, board, pid_calls, app >>

\* line 124: control_board.set_laser_power(control_output) returns or raises
WBoard(w) ==
    LET f == [workers[w] EXCEPT
                 !.since_stop = IF stop_event THEN @ + 1 ELSE @] IN
    /\ workers[w].pc = "board"
    /\ \/ /\ board' = [calls |-> board.calls + 1,
                       returned |-> board.returned + 1,
                       last |-> workers[w].output]
          /\ workers' = SetFrame(w, [f EXCEPT !.pc = "count"])
          /\ UNCHANGED cycles
       \/ /\ board' = [board EXCEPT !.calls = @ + 1,
                                    !.last = workers[w].output]
          /\ Raised(w, f)
    /\ UNCHANGED << stats, pairs, pid, pid_out, pid_calls, app, running,
                    stop_event, thread, setpoint, last_error, last_output,
                    loop_count, error_history, output_history, caller,
                    last_call >>

\* line 127: self.loop_count += 1, with no thread switched in between
\* the read and the store
WCount(w) ==
    /\ workers[w].pc = "count"
    /\ loop_count' = loop_count + 1
    /\ workers' = SetFrame(w, [workers[w] EXCEPT !.pc = "append_error"])
    /\ UNCHANGED << stats, pairs, pid, pid_out, pid_calls, app, running,
                    stop_event, thread, setpoint, last_error, last_output,
                    error_history, output_history, caller, last_call, cycles,
                    board >>

\* line 127, first half: self.loop_count is read.  The statement is a
\* read, an addition and a store, and threads can be switched between
\* them.
WCountLoad(w) ==
    /\ workers[w].pc = "count"
    /\ workers' = SetFrame(w, [workers[w] EXCEPT !.pc = "count_store",
                                                 !.count = loop_count])
    /\ UNCHANGED << stats, pairs, pid, pid_out, pid_calls, app, running,
                    stop_event, thread, setpoint, last_error, last_output,
                    loop_count, error_history, output_history, caller,
                    last_call, cycles, board >>

\* line 127, second half: the sum is stored in self.loop_count
WCountStore(w) ==
    /\ workers[w].pc = "count_store"
    /\ loop_count' = workers[w].count + 1
    /\ workers' = SetFrame(w, [workers[w] EXCEPT !.pc = "append_error",
                                                 !.count = NoValue])
    /\ UNCHANGED << stats, pairs, pid, pid_out, pid_calls, app, running,
                    stop_event, thread, setpoint, last_error, last_output,
                    error_history, output_history, caller, last_call, cycles,
                    board >>

\* line 128: self.error_history.append(error)
WAppendError(w) ==
    /\ workers[w].pc = "append_error"
    /\ error_history' = Append(error_history, workers[w].error)
    /\ workers' = SetFrame(w, [workers[w] EXCEPT !.pc = "append"])
    /\ UNCHANGED << stats, pairs, pid, pid_out, pid_calls, app, running,
                    stop_event, thread, setpoint, last_error, last_output,
                    loop_count, output_history, caller, last_call, cycles,
                    board >>

\* lines 129-143: self.output_history.append(control_output); keep only
\* the last 1000 samples; the try block ends normally
WAppend(w) ==
    LET eh == error_history
        oh == Append(output_history, workers[w].output)
    IN  /\ workers[w].pc = "append"
        /\ IF Len(eh) > HISTORY_CAP
           THEN /\ error_history' = Tail(eh)
                /\ output_history' = Tail(oh)
           ELSE /\ error_history' = eh
                /\ output_history' = oh
        /\ workers' = SetFrame(w, Pacing(workers[w]))
        /\ cycles' = CycleEnded("ok")
        /\ pairs' = Append(pairs, << workers[w].error, workers[w].output >>)
        /\ UNCHANGED << stats, pid, pid_out, pid_calls, app, running,
                        stop_event, thread, setpoint, last_error, last_output,
                        loop_count, caller, last_call, board >>

\* lines 149-152: elapsed and sleep_time are computed; the thread waits
\* on the stop event when sleep_time > 0, else it is at the loop condition
WPace(w) ==
    /\ workers[w].pc = "pace"
    /\ \E g \in AfterTry(workers[w]) : workers' = SetFrame(w, g)
    /\ UNCHANGED << stats, pairs, pid, pid_out, pid_calls, app, running,
                    stop_event, thread, setpoint, last_error, last_output,
                    loop_count, error_history, output_history, caller,
                    last_call, cycles, board >>

\* Mutant of WWakeSignal: the wait does not react to the event (a sleep).
WWakeNever(w) ==
    /\ FALSE
    /\ UNCHANGED vars

\* line 152: _stop_event.wait(timeout) returns because the event is set
WWakeSignal(w) ==
    /\ workers[w].pc = "wait"
    /\ stop_event
    /\ workers' = SetFrame(w, Outside(workers[w], "top"))
    /\ UNCHANGED << stats, pairs, pid, pid_out, pid_calls, app, running,
                    stop_event, thread, setpoint, last_error, last_output,
                    loop_count, error_history, output_history, caller,
                    last_call, cycles, board >>

\* line 152: _stop_event.wait(timeout) returns because sleep_time is over
WWakeTimeout(w) ==
    /\ workers[w].pc = "wait"
    /\ workers' = SetFrame(w, Outside(workers[w], "top"))
    /\ UNCHANGED << stats, pairs, pid, pid_out, pid_calls, app, running,
                    stop_event, thread, setpoint, last_error, last_output,
                    loop_count, error_history, output_history, caller,
                    last_call, cycles, board >>

WorkerStep(w) ==
    \/ WTop(w) \/ WAcquire(w) \/ WProcess(w) \/ WSetpoint(w) \/ WControl(w)
    \/ WBoard(w) \/ WCount(w) \/ WAppendError(w) \/ WAppend(w) \/ WPace(w)
    \/ WWakeSignal(w) \/ WWakeTimeout(w)

---------------------------------------------------------------------------
(* The feedback loop: one caller thread and the threads it starts *)

\* LabControlApplication.start_feedback_loop: PIDController(kp, ki, kd,
\* output_limits=[0, 100]) and FeedbackLoop(...), gains 1.0, 0.1, 0.01
Init ==
    /\ pid = PIDInit(RInt(1), Rat[1, 10], Rat[1, 100], RInt(0), RInt(100), 0)
    /\ pid_out = NoOutput
    /\ pid_calls = NoCalls
    /\ app = AppInit
    /\ LoopInit

Next ==
    \/ Start
    \/ StopBegin
    \/ JoinReturn
    \/ \E sp \in Setpoints : SetSetpoint(sp)
    \/ \E w \in WorkerIds : WorkerStep(w)

Spec == Init /\ [][Next]_vars

\* The loop with an operator who also changes the target while it runs.
NextRetarget ==
    \/ Next
    \/ \E sp \in Retargets : SetSetpoint(sp)

SpecRetarget == Init /\ [][NextRetarget]_vars

\* The loop with a caller who also reads the statistics.
NextStats ==
    \/ Next
    \/ GetStatistics

SpecStats == Init /\ [][NextStats]_vars

\* The loop with threads switched inside line 127 as well, in runs of
\* one cycle more: enough for one thread to complete two cycles while
\* another is between the read and the store.
NextCount ==
    \/ Next
    \/ \E w \in WorkerIds : WTopUpTo(w, MaxCycles + 1)
    \/ \E w \in WorkerIds : WCountLoad(w)
    \/ \E w \in WorkerIds : WCountStore(w)

SpecCount == Init /\ [][NextCount]_vars

\* The caller's thread is scheduled while it is inside get_statistics;
\* nothing is assumed of the loop's threads, which may stay where they
\* are for ever (inside a collaborator call, in the wait, anywhere).
SpecCaller == SpecStats /\ WF_vars(GetStatistics)

\* The thread's steps that do not depend on the loop period running out:
\* every collaborator call returns and the scheduler runs the thread.
WorkerProgress(w) ==
    \/ WTop(w) \/ WAcquire(w) \/ WProcess(w) \/ WSetpoint(w) \/ WControl(w)
    \/ WBoard(w) \/ WCount(w) \/ WAppendError(w) \/ WAppend(w) \/ WPace(w)
    \/ WWakeSignal(w)

\* Every collaborator call returns and every thread is scheduled.
SpecLive == Spec /\ \A w \in WorkerIds : WF_vars(WorkerProgress(w))

\* The thread's steps that are no collaborator call.
WorkerLocal(w) ==
    \/ WTop(w) \/ WSetpoint(w) \/ WControl(w) \/ WCount(w)
    \/ WAppendError(w) \/ WAppend(w) \/ WPace(w) \/ WWakeSignal(w)

\* The caller's join(timeout=2.0) ends and every thread is scheduled;
\* nothing is assumed of the collaborators: a thread may stay inside a
\* call to the camera, the pipeline or the board for ever.
SpecStop ==
    Spec /\ WF_vars(JoinReturn) /\ \A w \in WorkerIds : WF_vars(WorkerLocal(w))

---------------------------------------------------------------------------
(* Lifecycle: start() and stop() *)

\* C2: under any sequence of start() and stop() calls at most one thread
\* is inside a control cycle at any time.
C2_AtMostOneWorker == Cardinality(CycleWorkers) <= 1

\* C3: a start() call on a running loop changes neither the running flag,
\* the stop event, the thread reference nor any thread (none is created),
\* and sends nothing to the board; a start() call on an idle loop adds
\* exactly one thread: two calls in a row add one thread, not two.
C3_StartOnRunningIsNoop ==
    [][ /\ (last_call' = "start_noop" /\ last_call # "start_noop") =>
            /\ running
            /\ UNCHANGED << running, stop_event, thread, workers, board,
                            caller >>
        /\ (last_call' = "start" /\ ~running /\ running') =>
            /\ thread' \notin LiveWorkers
            /\ LiveWorkers' = LiveWorkers \cup {thread'}
      ]_vars

\* C3 witness: start() was called twice in a row on a fresh loop and one
\* thread is alive.
C3_Witness ==
    /\ last_call = "start_noop"
    /\ LiveWorkers = {1}
    /\ thread = 1
    /\ workers[2].pc = "unborn"

\* C4: a stop() call on an idle loop (never started, or already stopped)
\* changes nothing: running flag, stop event, thread reference, threads,
\* run state and the caller's position are as before.
C4_StopOnIdleIsNoop ==
    [][ (last_call' = "stop_noop" /\ last_call # "stop_noop") =>
            /\ ~running
            /\ UNCHANGED << running, stop_event, thread, workers, caller,
                            last_error, last_output, loop_count,
                            error_history, output_history, setpoint, pid,
                            board >>
      ]_vars

\* C4 witness: stop() was called on a loop that an earlier stop() had
\* already stopped.
C4_Witness ==
    /\ last_call = "stop_noop"
    /\ stop_event
    /\ thread # 0
    /\ caller = "idle"

\* C5: while the stop event is set (stop() has signalled and no start()
\* has followed) no thread begins a cycle, that is, none issues an
\* acquire_image request; and each thread sends at most one command to the
\* board after the signal (the one of the cycle that was in flight).
C5_NoNewCycleAfterStop ==
    /\ [][ stop_event =>
             \A w \in WorkerIds :
                workers'[w].pc = "acquire" => workers[w].pc = "acquire"
         ]_vars
    /\ [](stop_event => \A w \in WorkerIds : workers[w].since_stop <= 1)

\* C5 witness: a thread finished the cycle that was in flight when stop()
\* signalled, commanding the board once after the signal, and has exited.
C5_Witness ==
    /\ stop_event
    /\ workers[1].since_stop = 1
    /\ workers[1].pc = "done"

\* C6: once the stop event is set, every thread that is alive exits,
\* unless a later start() clears the event: collaborator calls return and
\* a thread waiting out the loop period is woken by the event, not by the
\* period running out, and does not enter another cycle.
C6_WorkerExitsAfterStop ==
    /\ \A w \in WorkerIds :
          [](stop_event /\ Alive(workers[w]) =>
                <>(~Alive(workers[w]) \/ ~stop_event))
    /\ [][ \A w \in WorkerIds :
             (stop_event /\ workers[w].pc = "wait"
                         /\ workers'[w].pc # "wait") =>
                workers'[w].pc = "top"
         ]_vars

\* C6 witness: stop() has signalled while the thread waits out the period.
C6_Witness ==
    /\ stop_event
    /\ caller = "joining"
    /\ thread = 1
    /\ workers[1].pc = "wait"

\* C7: every stop() call returns, and when it returns the loop is idle
\* (running flag false, stop event set), also when the thread never
\* exits because it stays inside a collaborator call.
C7_StopReturnsIdle ==
    (caller = "joining") ~> (caller = "idle" /\ ~running /\ stop_event)

\* C7 witness: stop() has returned although the thread is still inside a
\* collaborator call.
C7_Witness ==
    /\ caller = "idle"
    /\ last_call = "stop"
    /\ ~running
    /\ stop_event
    /\ InCall(workers[thread])

---------------------------------------------------------------------------
(* Faults inside a cycle *)

\* C8: an exception raised in a cycle by the camera, the pipeline or the
\* board leaves the running flag and the stop event as they are and takes
\* the thread to the rate-keeping code after the try block;
\* a thread exits only at the loop condition and only when the running
\* flag is false or the stop event is set.
C8_FaultContained ==
    [][ /\ cycles'.fault # cycles.fault =>
            /\ UNCHANGED << running, stop_event, thread, caller >>
            /\ \A w \in WorkerIds :
                  workers'[w] # workers[w] =>
                     /\ InCall(workers[w])
                     /\ workers'[w].pc = "pace"
        /\ \A w \in WorkerIds :
              (workers[w].pc # "done" /\ workers'[w].pc = "done") =>
                 /\ workers[w].pc = "top"
                 /\ ~running \/ stop_event
      ]_vars

\* C8 witness: the board raised in the first cycle and the same thread is
\* inside the second cycle, the loop still running.
C8_Witness ==
    /\ cycles.fault = 1
    /\ board.calls = 1
    /\ board.returned = 0
    /\ running
    /\ LiveWorkers = {1}
    /\ workers[1].pc = "acquire"

\* C9: when acquire_image returns None the cycle ends there: the thread
\* is back at the loop condition without having called the pipeline, the
\* controller or the board, and last_error, last_output, loop_count and
\* the histories are unchanged; the running flag is unchanged.
C9_NoneSkipsCycle ==
    [][ cycles'.none # cycles.none =>
          /\ UNCHANGED << pid, pid_out, board, last_error, last_output,
                          loop_count, error_history, output_history,
                          running, stop_event >>
          /\ \A w \in WorkerIds :
                workers'[w] # workers[w] =>
                   /\ workers[w].pc = "acquire"
                   /\ workers'[w].pc = "top"
      ]_vars

\* C9 witness: the first acquisition returned None, nothing was sent to
\* the board, and the thread is inside the next cycle.
C9_Witness ==
    /\ cycles.none = 1
    /\ board.calls = 0
    /\ loop_count = 0
    /\ running
    /\ workers[1].pc = "process"

\* C11: a cycle that finds no setpoint configured ends there: the thread
\* is back at the loop condition without having called the controller or
\* the board, the run state (last_error, last_output, loop_count, the
\* histories) and the running flag are unchanged; and a cycle ends that
\* way only while no setpoint is configured, so the first cycle that
\* begins after set_setpoint goes on to the controller.
C11_NoSetpointSkipsCycle ==
    [][ cycles'.no_setpoint # cycles.no_setpoint =>
          /\ setpoint = NoSetpoint
          /\ UNCHANGED << pid, pid_out, board, last_error, last_output,
                          loop_count, error_history, output_history,
                          running, stop_event >>
          /\ cycles'.updates = cycles.updates
          /\ \A w \in WorkerIds :
                workers'[w] # workers[w] =>
                   /\ workers[w].pc = "setpoint"
                   /\ workers'[w].pc = "top"
      ]_vars

\* C11 witness: the first cycle ran without a setpoint and was skipped;
\* set_setpoint followed, and the next cycle has called the controller.
C11_Witness ==
    /\ cycles.no_setpoint = 1
    /\ CyclesEnded = 1
    /\ setpoint # NoSetpoint
    /\ cycles.updates = 1
    /\ board.calls = 0
    /\ running
    /\ workers[1].pc = "board"

---------------------------------------------------------------------------
(* The steps of one cycle *)

\* the order of the steps inside the try block
CycleOrder ==
    { <<"top", "acquire">>, <<"acquire", "process">>,
      <<"process", "setpoint">>, <<"setpoint", "control">>,
      <<"control", "board">>, <<"board", "count">>,
      <<"count", "append_error">>, <<"count", "count_store">>,
      <<"count_store", "append_error">>,
      <<"append_error", "append">> }

\* C12: in a cycle with an image and a setpoint the controller is called
\* once, with error = setpoint.target_value - measured_value; last_error
\* holds that error and last_output the value update returned; the board
\* is then commanded once, with that value; a thread takes the steps in
\* the order acquire, process, update, command, statistics; every command
\* follows one update and every completed cycle one command.
C12_CycleSteps ==
    /\ [][  /\ cycles'.updates # cycles.updates =>
                /\ cycles'.updates = cycles.updates + 1
                /\ \E w \in WorkerIds :
                      LET e == RSub[setpoint.target_value,
                                    workers[w].measured] IN
                      /\ workers[w].pc = "control"
                      /\ workers'[w].pc = "board"
                      /\ pid'.last_error = e
                      /\ last_error' = e
                      /\ last_output' = pid_out'
                      /\ workers'[w].error = e
                      /\ workers'[w].output = pid_out'
            /\ board'.calls # board.calls =>
                /\ board'.calls = board.calls + 1
                /\ \E w \in WorkerIds :
                      /\ workers[w].pc = "board"
                      /\ workers'[w].pc # "board"
                      /\ board'.last = workers[w].output
            /\ \A w \in WorkerIds :
                  (InCycle(workers'[w]) /\ workers'[w].pc # workers[w].pc)
                     => <<workers[w].pc, workers'[w].pc>> \in CycleOrder
         ]_vars
    /\ [](cycles.updates
             = board.calls
               + Cardinality({w \in WorkerIds : workers[w].pc = "board"}))
    /\ [](board.returned
             = cycles.ok
               + Cardinality({w \in WorkerIds :
                     workers[w].pc \in {"count", "count_store",
                                        "append_error", "append"}}))

\* C12 witness: one cycle has completed: one update with the error
\* 256 - 200, one board command with the value it returned.
C12_Witness ==
    /\ cycles.ok = 1
    /\ CyclesEnded = 1
    /\ cycles.updates = 1
    /\ board.calls = 1
    /\ last_error = RInt(56)
    /\ error_history = << RInt(56) >>
    /\ board.last = last_output
    /\ output_history = << last_output >>
    /\ last_output = pid_out

\* C13: when the feature map has no entry named setpoint.parameter_name
\* the lookup raises nothing and ends no cycle: measured_value is 0, the
\* thread goes on to the controller, and the error the controller gets
\* is setpoint.target_value.
C13_AbsentFeatureIsZero ==
    [][ \A w \in WorkerIds :
          /\ ( /\ workers[w].pc = "setpoint"
               /\ workers'[w] # workers[w]
               /\ setpoint # NoSetpoint
               /\ FeatureEntry(workers[w].features,
                               setpoint.parameter_name) = NoValue )
             => /\ workers'[w].pc = "control"
                /\ workers'[w].measured = RInt(0)
                /\ UNCHANGED cycles
          /\ ( /\ workers[w].pc = "control"
               /\ workers'[w] # workers[w]
               /\ FeatureEntry(workers[w].features,
                               workers[w].lookup.parameter_name) = NoValue )
             => /\ workers'[w].pc = "board"
                /\ workers'[w].error = setpoint.target_value
                /\ pid'.last_error = setpoint.target_value
                /\ last_error' = setpoint.target_value
                /\ cycles'.fault = cycles.fault
      ]_vars

\* C13 witness: a cycle whose feature map had no centroid_x has completed
\* with a board command and a history entry; the error was the target.
C13_Witness ==
    /\ cycles.ok = 1
    /\ CyclesEnded = 1
    /\ board.returned = 1
    /\ loop_count = 1
    /\ error_history = << RInt(256) >>
    /\ Len(output_history) = 1

\* C17: within one cycle the parameter_name used for the lookup and the
\* target_value used for the error are those of one Setpoint object,
\* however set_setpoint interleaves with the thread: the error a thread
\* has computed is the target of the Setpoint it looked the feature up
\* with, minus the measured value.
C17_SetpointNotTorn ==
    \A w \in WorkerIds :
        workers[w].pc = "board" =>
            workers[w].error = RSub[workers[w].lookup.target_value,
                                    workers[w].measured]

\* no thread is inside a cycle
AtCycleBoundary == CycleWorkers = {}

\* C10: with a setpoint configured and no other fault, after N cycles of
\* which k had a failed acquisition, loop_count is N and the board has
\* received N - k commands.
C10_CountEqualsCycles ==
    (AtCycleBoundary /\ cycles.no_setpoint = 0 /\ cycles.fault = 0) =>
        /\ loop_count = CyclesEnded
        /\ board.calls = CyclesEnded - cycles.none

---------------------------------------------------------------------------
(* Statistics *)

\* C14: at a cycle boundary, after n completed cycles, the histories hold
\* the (error, output) pairs of the latest min(n, 1000) cycles, oldest
\* first: both have that length and their i-th entries are one cycle's
\* pair.
C14_HistoryIsRecentPairs ==
    AtCycleBoundary =>
        LET n == Len(pairs)
            k == IF n < HISTORY_CAP THEN n ELSE HISTORY_CAP
        IN  /\ Len(error_history) = k
            /\ Len(output_history) = k
            /\ \A i \in 1 .. k :
                  << error_history[i], output_history[i] >> = pairs[n - k + i]

\* C15: what get_statistics() returns is the run state of one cycle
\* boundary: the error history and the output history it read have the
\* same length, at most 1000, and that length goes with the loop_count
\* it read (no count without its history entry, no entry without its
\* count).
C15_ConsistentSnapshot ==
    StatsReturned =>
        /\ stats.n_errors = stats.n_outputs
        /\ stats.n_errors <= HISTORY_CAP
        /\ stats.n_errors = IF stats.loop_count < HISTORY_CAP
                            THEN stats.loop_count ELSE HISTORY_CAP

\* what get_statistics() returned is the run state as it is now
StatsCurrent ==
    /\ StatsReturned
    /\ stats.loop_count = loop_count
    /\ stats.last_error = last_error
    /\ stats.last_output = last_output
    /\ stats.n_errors = Len(error_history)
    /\ stats.n_outputs = Len(output_history)

C18_CallerNeverWaits ==
    /\ (caller \in StatPcs) ~> (caller = "idle")
    /\ [][ (caller = "idle" /\ caller' # "idle") =>
              \/ caller' = "joining" /\ last_call' = "stop" /\ running
              \/ caller' = "stat_last_error"
         ]_vars

\* C18 witness: get_statistics() has returned on a running loop whose
\* thread is inside a collaborator call.
C18_Witness ==
    /\ StatsReturned
    /\ caller = "idle"
    /\ running
    /\ thread = 1
    /\ workers[1].pc = "acquire"
    /\ CyclesEnded = 0
    /\ stats.n_outputs = 0

---------------------------------------------------------------------------
(* End-to-end scenario: target 256, centroid_x = 200 in every cycle *)

\* Time between two update() calls of consecutive cycles, in ms: the loop
\* period give or take the difference of the cycles' processing times.
ScenarioDts == {PERIOD_MS - 10, PERIOD_MS, PERIOD_MS + 10}

\* error = setpoint.target_value - features.get("centroid_x", 0.0)
ScenarioError ==
    RSub[RInt(256),
         FeatureGet([centroid_x |-> RInt(200), centroid_y |-> RInt(12)],
                    "centroid_x")]

\* One cycle of the scenario: update(error) is called dt ms after the
\* previous call.  update() reads the clock only to subtract the previous
\* reading from it, so the reading is kept relative to the previous call:
\* the stored reading is 0 in every state and the runs are unbounded.
ScenarioCycle(dt) ==
    LET r == PIDUpdate(pid, ScenarioError, pid.last_time + dt) IN
    /\ pid' = [r.ctrl EXCEPT !.last_time = 0]
    /\ pid_out' = r.out
    /\ UNCHANGED << pid_calls, app, loopVars >>

NextScenario == \E dt \in ScenarioDts : ScenarioCycle(dt)

\* The thread keeps running cycles (no stop() in the scenario).
SpecScenario == Init /\ [][NextScenario]_vars /\ WF_vars(NextScenario)

\* C21: in the scenario (error 56, gains 1.0/0.1/0.01, bounds [0,100]) the
\* accumulator never exceeds what is needed to reach the upper bound,
\* kp*error + ki*integral <= output_max in every cycle, and the commanded
\* output eventually is the upper bound 100 and stays there for ever.
C21_SaturationScenario ==
    /\ [](RLe[RAdd[RMul[pid.kp, ScenarioError], RMul[pid.ki, pid.integral]],
              pid.output_max])
    /\ <>[](pid_out = RInt(100))

\* The accumulator has grown to within one cycle of the bound and the
\* output is cut at 100.
C21_Witness ==
    /\ pid_out = RInt(100)
    /\ RLt[RInt(430), pid.integral]
    /\ pid.last_error = RInt(56)

---------------------------------------------------------------------------
(* Controller: reset, time step, gains *)

\* C22: reset() leaves integral 0, previous error 0 and a new clock
\* reading, with gains and limits as they were; the update that follows
\* a reset returns what the same update returns on a controller newly
\* constructed with these gains and limits, the same time after its
\* construction.
C22_ResetIsFresh ==
    [][  /\ last_call' = "reset" =>
               \E now \in PidTimes :
                  pid' = PIDInit(pid.kp, pid.ki, pid.kd, pid.output_min,
                                 pid.output_max, now)
         /\ (last_call = "reset" /\ last_call' = "update") =>
               \A t0 \in PidTimes :
                  pid_out' =
                     PIDUpdate(PIDInit(pid.kp, pid.ki, pid.kd,
                                       pid.output_min, pid.output_max, t0),
                               pid'.last_error,
                               t0 + pid'.last_time - pid.last_time).out
      ]_vars

\* C22 witness: a reset after updates that had returned a non-zero output
\* with derivative gain 1 (so the previous error mattered); the update
\* of the claim is the next call.
C22_Witness ==
    /\ last_call = "reset"
    /\ pid_out # NoOutput
    /\ pid_out # RInt(0)
    /\ pid.kd = RInt(1)
    /\ pid.ki = RInt(1)

\* C24: the dt of every update is strictly positive, and is the floor of
\* 1 ms when the clock reading is not after the previous one; the value
\* returned is a number (no division by zero).
C24_DtPositive ==
    [][ last_call' = "update" =>
          LET dt == PIDDt(pid, pid'.last_time) IN
          /\ RLt[RInt(0), dt]
          /\ pid'.last_time <= pid.last_time => dt = Rat[1, 1000]
          /\ pid_out' \in Rational
          /\ pid_out'.d > 0
      ]_vars

\* C24 witness: an update at clock reading 0, which is not after any
\* previous reading, integrated the error 1 over the floor of 1 ms.
C24_Witness ==
    /\ last_call = "update"
    /\ pid.last_time = 0
    /\ pid.ki = RInt(1)
    /\ pid.last_error = RInt(1)
    /\ pid.integral = Rat[1, 1000]

\* C30: set_gains leaves integral, previous error, previous clock reading
\* and the limits as they were, and the update that follows it returns
\* the clipped sum of the three terms computed with the gains set, the
\* integral and the previous error of that state.
C30_SetGainsFrame ==
    [][  /\ last_call' = "set_gains" =>
               /\ pid'.integral = pid.integral
               /\ pid'.last_error = pid.last_error
               /\ pid'.last_time = pid.last_time
               /\ pid'.output_min = pid.output_min
               /\ pid'.output_max = pid.output_max
         /\ (last_call = "set_gains" /\ last_call' = "update") =>
               LET error == pid'.last_error
                   dt0 == Rat[pid'.last_time - pid.last_time, 1000]
                   dt == IF RLe[dt0, RInt(0)] THEN Rat[1, 1000] ELSE dt0
                   p_term == RMul[pid.kp, error]
                   i_term == RMul[pid.ki,
                                  RAdd[pid.integral, RMul[error, dt]]]
                   d_term == RMul[pid.kd,
                                  RDiv[RSub[error, pid.last_error], dt]]
                   raw == RAdd[RAdd[p_term, i_term], d_term]
               IN  pid_out' = RMin[RMax[raw, pid.output_min],
                                   pid.output_max]
      ]_vars

\* C30 witness: gains were set to 1 on a controller whose integral and
\* previous error are not zero.
C30_Witness ==
    /\ last_call = "set_gains"
    /\ pid.kp = RInt(1)
    /\ pid.ki = RInt(1)
    /\ pid.kd = RInt(1)
    /\ pid.integral # RInt(0)
    /\ pid.last_error # RInt(0)

---------------------------------------------------------------------------
(* Controller: set_gains called while update runs *)

\* Gains an operator passes to set_gains while the loop runs
GainChanges ==
    { << RInt(2), Rat[1, 5], Rat[1, 50] >>, << RInt(0), RInt(0), RInt(0) >> }

UFrame == pid_calls.update
GFrame == pid_calls.set_gains

OtherVars == << pid_out, last_call, stats, pairs, running, stop_event,
                thread, setpoint, last_error, last_output, loop_count,
                error_history, output_history, workers, caller, cycles,
                board, app >>

\* lines 44-49: update(error) is entered, reads the clock and last_time
UDt(error, now) ==
    /\ UFrame.pc = "idle"
    /\ IntegralInRange([integral |->
                           RAdd[pid.integral, RMul[error, PIDDt(pid, now)]]])
    /\ pid_calls' = [pid_calls EXCEPT !.update =
                        [@ EXCEPT !.pc = "p", !.error = error, !.now = now,
                                  !.dt = PIDDt(pid, now)]]
    /\ UNCHANGED << pid, OtherVars >>

\* line 52: p_term = self.kp * error
UP ==
    /\ UFrame.pc = "p"
    /\ pid_calls' = [pid_calls EXCEPT !.update =
                        [@ EXCEPT !.pc = "i",
                                  !.p_term = RMul[pid.kp, UFrame.error]]]
    /\ UNCHANGED << pid, OtherVars >>

\* lines 55-56: self.integral += error * dt; i_term = self.ki * self.integral
UI ==
    /\ UFrame.pc = "i"
    /\ LET integral1 == RAdd[pid.integral, RMul[UFrame.error, UFrame.dt]] IN
       /\ pid' = [pid EXCEPT !.integral = integral1]
       /\ pid_calls' = [pid_calls EXCEPT !.update =
                           [@ EXCEPT !.pc = "d",
                                     !.i_term = RMul[pid.ki, integral1]]]
    /\ UNCHANGED OtherVars

\* lines 59-60: derivative and d_term = self.kd * derivative
UD ==
    /\ UFrame.pc = "d"
    /\ pid_calls' = [pid_calls EXCEPT !.update =
                        [@ EXCEPT !.pc = "out",
                                  !.d_term =
                                     RMul[pid.kd,
                                          RDiv[RSub[UFrame.error,
                                                    pid.last_error],
                                               UFrame.dt]]]]
    /\ UNCHANGED << pid, OtherVars >>

\* Mutant of UOut: a call whose output was cut does not persist the error
\* and the clock reading.
UOutCutNotPersisted ==
    /\ UFrame.pc = "out"
    /\ LET raw == RAdd[RAdd[UFrame.p_term, UFrame.i_term], UFrame.d_term]
           output == Clip(raw, pid.output_min, pid.output_max)
       IN  /\ pid' = IF output # raw
                     THEN [pid EXCEPT !.integral =
                                        RSub[pid.integral,
                                             RMul[UFrame.error, UFrame.dt]]]
                     ELSE [pid EXCEPT !.last_error = UFrame.error,
                                      !.last_time = UFrame.now]
           /\ pid_out' = output
    /\ pid_calls' = [pid_calls EXCEPT !.update = NoCalls.update]
    /\ last_call' = "update"
    /\ UNCHANGED << stats, pairs, running, stop_event, thread, setpoint,
                    last_error, last_output, loop_count, error_history,
                    output_history, workers, caller, cycles, board, app >>

\* lines 63-76: sum, clip, anti-windup, last_error, last_time, return
UOut ==
    /\ UFrame.pc = "out"
    /\ LET raw == RAdd[RAdd[UFrame.p_term, UFrame.i_term], UFrame.d_term]
           output == Clip(raw, pid.output_min, pid.output_max)
           integral2 == IF output # raw
                        THEN RSub[pid.integral,
                                  RMul[UFrame.error, UFrame.dt]]
                        ELSE pid.integral
       IN  /\ pid' = [pid EXCEPT !.integral = integral2,
                                 !.last_error = UFrame.error,
                                 !.last_time = UFrame.now]
           /\ pid_out' = output
    /\ pid_calls' = [pid_calls EXCEPT !.update = NoCalls.update]
    /\ last_call' = "update"
    /\ UNCHANGED << stats, pairs, running, stop_event, thread, setpoint,
                    last_error, last_output, loop_count, error_history,
                    output_history, workers, caller, cycles, board, app >>

\* line 87: set_gains(kp, ki, kd) is entered; self.kp = kp
GKp(kp, ki, kd) ==
    /\ GFrame.pc = "idle"
    /\ pid' = [pid EXCEPT !.kp = kp]
    /\ pid_calls' = [pid_calls EXCEPT !.set_gains =
                        [pc |-> "ki", kp |-> kp, ki |-> ki, kd |-> kd,
                         old |-> [kp |-> pid.kp, ki |-> pid.ki,
                                  kd |-> pid.kd]]]
    /\ UNCHANGED OtherVars

\* line 88: self.ki = ki
GKi ==
    /\ GFrame.pc = "ki"
    /\ pid' = [pid EXCEPT !.ki = GFrame.ki]
    /\ pid_calls' = [pid_calls EXCEPT !.set_gains.pc = "kd"]
    /\ UNCHANGED OtherVars

\* lines 89-90: self.kd = kd; set_gains returns
GKd ==
    /\ GFrame.pc = "kd"
    /\ pid' = [pid EXCEPT !.kd = GFrame.kd]
    /\ pid_calls' = [pid_calls EXCEPT !.set_gains.pc = "done"]
    /\ last_call' = "set_gains"
    /\ UNCHANGED << pid_out, stats, pairs, running, stop_event, thread,
                    setpoint, last_error, last_output, loop_count,
                    error_history, output_history, workers, caller, cycles,
                    board, app >>

\* One set_gains call at any moment of a sequence of update calls.
NextGains ==
    \/ \E e \in PidErrors, now \in PidTimes : UDt(e, now)
    \/ UP
    \/ UI
    \/ UD
    \/ UOut
    \/ \E g \in GainChanges : GKp(g[1], g[2], g[3])
    \/ GKi
    \/ GKd

SpecGains == Init /\ [][NextGains]_vars

\* what update returns with gains g: the frame's error and dt, the
\* integral after line 55 and the previous error
OutputWith(g) ==
    LET raw == RAdd[RAdd[RMul[g.kp, UFrame.error],
                         RMul[g.ki, pid.integral]],
                    RMul[g.kd, RDiv[RSub[UFrame.error, pid.last_error],
                                    UFrame.dt]]]
    IN  RMin[RMax[raw, pid.output_min], pid.output_max]

\* C23: whatever the interleaving of set_gains with an update, the value
\* the update returns is the one computed with the three gains from
\* before the set_gains call or with the three gains it sets.
C23_SetGainsAtomic ==
    [][ (UFrame.pc = "out" /\ pid_calls'.update.pc = "idle") =>
          IF GFrame.pc = "idle"
          THEN pid_out' = OutputWith(pid)
          ELSE \/ pid_out' = OutputWith(GFrame.old)
               \/ pid_out' = OutputWith(GFrame)
      ]_vars

---------------------------------------------------------------------------
(* Run state over start and stop *)

\* C25: loop_count never decreases: every step leaves it as it is or adds
\* one to it, and a step that changes it is a thread's execution of
\* line 127, never start(), stop() or set_setpoint().
C25_CountNeverDecreases ==
    [][  /\ loop_count' \in {loop_count, loop_count + 1}
         /\ loop_count' # loop_count =>
               \E w \in WorkerIds :
                  /\ workers[w].pc \in {"count", "count_store"}
                  /\ workers'[w].pc = "append_error"
      ]_vars

\* the fields of the run state
runState == << loop_count, last_error, last_output, error_history,
               output_history >>

\* stop() has returned and the thread it joined has exited
StoppedClean ==
    /\ ~running
    /\ caller = "idle"
    /\ thread # 0
    /\ ~Alive(workers[thread])

\* C26: a start() that takes the loop from idle to running with no thread
\* left over, the first one or a restart after stop(), leaves loop_count,
\* last_error and last_output 0 and the histories empty.
C26_RunStateNewOnStart ==
    [][ (~running /\ running' /\ LiveWorkers = {}) =>
          /\ loop_count' = 0
          /\ last_error' = RInt(0)
          /\ last_output' = RInt(0)
          /\ error_history' = << >>
          /\ output_history' = << >>
      ]_vars

\* C27: a step in which no thread moves (start(), stop(), the join
\* returning, set_setpoint(), the steps of get_statistics()) leaves the
\* run state as it is; and from stop() having returned with its thread
\* exited until the next start(), the run state does not change and the
\* board receives no command.
C27_RunStateFrozen ==
    [][  /\ (\A w \in WorkerIds :
                \/ workers'[w].pc = workers[w].pc
                \/ workers[w].pc = "unborn") =>
               UNCHANGED runState
         /\ StoppedClean => UNCHANGED << runState, board >>
      ]_vars

\* C28: a thread comes back to the loop condition, from where it requests
\* the next image, only from the rate-keeping code of lines 149-152 or
\* from the wait itself, whatever way its cycle ended; and it requests an
\* image only from the loop condition.
C28_EveryCyclePaced ==
    [][ \A w \in WorkerIds :
          /\ (workers'[w].pc = "top" /\ workers[w].pc \notin {"top", "unborn"})
                => workers[w].pc \in {"pace", "wait"}
          /\ (workers'[w].pc = "acquire" /\ workers[w].pc # "acquire")
                => workers[w].pc = "top"
      ]_vars

\* C29: a start() that takes the loop from idle to running, the first one
\* or a restart, leaves the stop event clear and a new thread at the loop
\* condition; a thread that evaluates the loop condition while the loop
\* is running and the event is clear goes on to a cycle; and a thread
\* exits only when the flag is false or the event is set.
C29_RestartRuns ==
    [][  /\ (~running /\ running') =>
               /\ ~stop_event'
               /\ thread' # thread
               /\ workers[thread'].pc = "unborn"
               /\ workers'[thread'].pc = "top"
         /\ \A w \in WorkerIds :
               /\ (workers[w].pc = "top" /\ workers'[w] # workers[w]
                      /\ running /\ ~stop_event)
                     => workers'[w].pc = "acquire"
               /\ (workers[w].pc = "top" /\ workers'[w].pc = "done")
                     => (~running \/ stop_event)
      ]_vars

\* C29 witness: the first thread has exited after stop(), start() was
\* called again, and the second thread has completed a cycle and is in
\* its wait while the loop is running.
C29_Witness ==
    /\ running
    /\ ~stop_event
    /\ thread = 2
    /\ workers[1].pc = "done"
    /\ workers[2].pc = "wait"
    /\ board.returned >= 1
    /\ LiveWorkers = {2}

---------------------------------------------------------------------------
(* Controller: what a call persists *)

\* C31: when an update call returns, cut or not, last_error is the error
\* the call was given and last_time the clock reading the call took when
\* it began.
C31_UpdatePersists ==
    [][ (UFrame.pc = "out" /\ pid_calls'.update.pc = "idle") =>
          /\ pid'.last_error = UFrame.error
          /\ pid'.last_time = UFrame.now
      ]_vars

\* C31 witness: an update with error -MaxErr at clock reading MaxClock has
\* returned, cut at the lower limit 0, and both values are stored.
C31_Witness ==
    /\ UFrame.pc = "idle"
    /\ last_call = "update"
    /\ pid_out = RInt(0)
    /\ pid.kp = RInt(1)
    /\ pid.last_error = RInt(-MaxErr)
    /\ pid.last_time = MaxClock

---------------------------------------------------------------------------
(* Run state at a cycle boundary *)

\* C32: at a cycle boundary loop_count is the number of board commands
\* that have returned, both histories have the same length, and that
\* length is min(loop_count, 1000).
C32_CountMatchesBoard ==
    AtCycleBoundary =>
        /\ loop_count = board.returned
        /\ Len(error_history) = Len(output_history)
        /\ Len(error_history)
              = (IF loop_count < HISTORY_CAP THEN loop_count ELSE HISTORY_CAP)

\* C33: at a cycle boundary with a non-empty history, while no more than
\* one thread has ever been started, (last_error, last_control_output) is
\* the latest (error, output) pair of the histories, also after a cycle
\* whose board command raised.
C33_LastIsLatestPair ==
    (/\ AtCycleBoundary
     /\ Cardinality({w \in WorkerIds : workers[w] # Unborn}) <= 1
     /\ error_history # << >>
     /\ output_history # << >>) =>
        /\ last_error = error_history[Len(error_history)]
        /\ last_output = output_history[Len(output_history)]

---------------------------------------------------------------------------
(* Controller state and the board *)

\* C34: the controller's integral, last_error and last_time advance only
\* in cycles whose command the board accepted: while no command has
\* returned and none is on its way to the board, they are as
\* PIDController.__init__ left them.
C34_FaultKeepsController ==
    (/\ board.returned = 0
     /\ \A w \in WorkerIds : workers[w].pc # "board") =>
        /\ pid.integral = RInt(0)
        /\ pid.last_error = RInt(0)
        /\ pid.last_time = 0

---------------------------------------------------------------------------
(* Controller: reset called while update runs *)

RFrame == pid_calls.reset

\* line 80: reset() is entered; self.integral = 0.0
RIntegral ==
    /\ RFrame.pc = "idle"
    /\ pid' = [pid EXCEPT !.integral = RInt(0)]
    /\ pid_calls' = [pid_calls EXCEPT !.reset =
                        [pc |-> "last_error", now |-> 0,
                         during |-> UFrame.pc # "idle"]]
    /\ UNCHANGED OtherVars

\* line 81: self.last_error = 0.0
RLastError ==
    /\ RFrame.pc = "last_error"
    /\ pid' = [pid EXCEPT !.last_error = RInt(0)]
    /\ pid_calls' = [pid_calls EXCEPT !.reset.pc = "last_time"]
    /\ UNCHANGED OtherVars

\* lines 82-83: self.last_time = time.time(); reset returns.  The clock
\* does not run backwards: the reading is not before the one an update
\* under way has taken.
RLastTime(now) ==
    /\ RFrame.pc = "last_time"
    /\ UFrame.pc # "idle" => now >= UFrame.now
    /\ pid' = [pid EXCEPT !.last_time = now]
    /\ pid_calls' = [pid_calls EXCEPT !.reset.pc = "done", !.reset.now = now]
    /\ last_call' = "reset"
    /\ UNCHANGED << pid_out, stats, pairs, running, stop_event, thread,
                    setpoint, last_error, last_output, loop_count,
                    error_history, output_history, workers, caller, cycles,
                    board, app >>

\* One reset call at any moment of a sequence of update calls; no update
\* is entered once reset has been.
NextReset ==
    \/ /\ RFrame.pc = "idle"
       /\ \E e \in PidErrors, now \in PidTimes : UDt(e, now)
    \/ UP
    \/ UI
    \/ UD
    \/ UOut
    \/ RIntegral
    \/ RLastError
    \/ \E now \in PidTimes : RLastTime(now)

SpecReset == Init /\ [][NextReset]_vars

\* C35: a reset() entered while an update was under way is linearizable:
\* once both have returned the controller is as after update-then-reset
\* (cleared, with reset's clock reading) or as after reset-then-update
\* (the update applied to the cleared controller).
C35_ResetLinearizable ==
    (RFrame.pc = "done" /\ RFrame.during /\ UFrame.pc = "idle") =>
        LET cleared == PIDReset(pid, RFrame.now) IN
        \/ pid = cleared
        \/ \E e \in PidErrors, now \in PidTimes :
              pid = PIDUpdate(cleared, e, now).ctrl

---------------------------------------------------------------------------
(* core/app.py : the application and the feedback loops it creates *)

AppRest == << pid, pid_out, pid_calls, loopVars >>

\* the thread of FeedbackLoop l exists and has not left _control_loop
AppAlive(l) == app.loops[l].pc \notin {"unborn", "done"}

\* the thread of FeedbackLoop l is inside camera.acquire_image or
\* control_board.set_laser_power
AppInCall(l) == app.loops[l].pc \in {"acquire", "board"}

AppFreeLoops == {l \in LoopIds : app.loops[l].pc = "unborn"}

\* FeedbackLoop.stop() up to the join, on the loop the application holds
AppLoopStopped ==
    [app.loops EXCEPT ![app.feedback_loop] =
        [@ EXCEPT !.running = FALSE, !.stop_event = TRUE]]

\* connect_camera: self.camera = AndorSDK2Camera(...)
ConnectCamera ==
    /\ app.caller = "idle"
    /\ ~app.camera
    /\ app' = [app EXCEPT !.camera = TRUE]
    /\ UNCHANGED AppRest

\* connect_adwin: self.adwin = AdWinGoldIII(...)
ConnectAdwin ==
    /\ app.caller = "idle"
    /\ ~app.adwin
    /\ app' = [app EXCEPT !.adwin = TRUE]
    /\ UNCHANGED AppRest

\* start_feedback_loop with the hardware connected (it returns False and
\* changes nothing otherwise): a new PIDController, a new FeedbackLoop
\* stored in self.feedback_loop, set_setpoint and start(), which finds the
\* new loop's _running False and starts its thread
StartFeedbackLoop ==
    /\ app.caller = "idle"
    /\ app.camera /\ app.adwin
    /\ AppFreeLoops # {}
    /\ LET l == CHOOSE x \in AppFreeLoops : \A y \in AppFreeLoops : x <= y IN
       app' = [app EXCEPT !.feedback_loop = l,
                          !.loops[l] = [running |-> TRUE,
                                        stop_event |-> FALSE,
                                        pc |-> "top"]]
    /\ UNCHANGED AppRest

\* stop_feedback_loop with a loop stored: self.feedback_loop.stop() up to
\* the join
StopFeedbackLoop ==
    /\ app.caller = "idle"
    /\ app.feedback_loop # 0
    /\ app' = [app EXCEPT !.loops = AppLoopStopped, !.caller = "stop_join"]
    /\ UNCHANGED AppRest

\* shutdown, lines 265-266: if self.feedback_loop: self.stop_feedback_loop()
ShutdownBegin ==
    /\ app.caller = "idle"
    /\ app' = IF app.feedback_loop # 0
              THEN [app EXCEPT !.loops = AppLoopStopped,
                               !.caller = "shutdown_join"]
              ELSE [app EXCEPT !.caller = "shutdown_camera"]
    /\ UNCHANGED AppRest

\* the join(timeout=2.0) of stop() returns, because the thread has ended
\* or because two seconds have passed with the thread inside a
\* collaborator call; stop_feedback_loop then sets self.feedback_loop = None
AppJoinReturn ==
    /\ app.caller \in {"stop_join", "shutdown_join"}
    /\ ~AppAlive(app.feedback_loop) \/ AppInCall(app.feedback_loop)
    /\ app' = [app EXCEPT !.feedback_loop = 0,
                          !.caller = IF app.caller = "stop_join"
                                     THEN "idle" ELSE "shutdown_camera"]
    /\ UNCHANGED AppRest

\* shutdown, lines 268-269: if self.camera: self.disconnect_camera()
ShutdownCamera ==
    /\ app.caller = "shutdown_camera"
    /\ app' = [app EXCEPT !.camera = FALSE, !.caller = "shutdown_adwin"]
    /\ UNCHANGED AppRest

\* shutdown, lines 271-272: if self.adwin: self.disconnect_adwin(); return
ShutdownAdwin ==
    /\ app.caller = "shutdown_adwin"
    /\ app' = [app EXCEPT !.adwin = FALSE, !.caller = "down"]
    /\ UNCHANGED AppRest

\* _control_loop of FeedbackLoop l, line 95: the loop condition
LoopTop(l) ==
    /\ app.loops[l].pc = "top"
    /\ app' = [app EXCEPT !.loops[l].pc =
                  IF app.loops[l].running /\ ~app.loops[l].stop_event
                  THEN "acquire" ELSE "done"]
    /\ UNCHANGED AppRest

\* lines 100-121: camera.acquire_image() returns None (continue), raises
\* (handler, then the pacing), or returns an image, which is processed and
\* turned into a control output for the board
LoopAcquire(l) ==
    /\ app.loops[l].pc = "acquire"
    /\ \E next \in {"top", "pace", "board"} :
          app' = [app EXCEPT !.loops[l].pc = next]
    /\ UNCHANGED AppRest

\* lines 124-146: control_board.set_laser_power returns or raises
LoopBoard(l) ==
    /\ app.loops[l].pc = "board"
    /\ app' = [app EXCEPT !.loops[l].pc = "pace"]
    /\ UNCHANGED AppRest

\* lines 149-152: the pacing wait is over
LoopPace(l) ==
    /\ app.loops[l].pc = "pace"
    /\ app' = [app EXCEPT !.loops[l].pc = "top"]
    /\ UNCHANGED AppRest

NextApp ==
    \/ ConnectCamera
    \/ ConnectAdwin
    \/ StartFeedbackLoop
    \/ StopFeedbackLoop
    \/ ShutdownBegin
    \/ AppJoinReturn
    \/ ShutdownCamera
    \/ ShutdownAdwin
    \/ \E l \in LoopIds : LoopTop(l)
    \/ \E l \in LoopIds : LoopAcquire(l)
    \/ \E l \in LoopIds : LoopBoard(l)
    \/ \E l \in LoopIds : LoopPace(l)

SpecApp == Init /\ [][NextApp]_vars

\* C36: at most one feedback worker that has not been told to stop is
\* alive at any time: a second start_feedback_loop without a
\* stop_feedback_loop in between does not leave the first loop's thread
\* running alongside the second.
C36_OneWorkerPerApp ==
    Cardinality({l \in LoopIds : AppAlive(l) /\ ~app.loops[l].stop_event})
        <= 1

\* C37: while the application has created no more than one feedback
\* loop, shutdown() disconnects the camera and the board only after it
\* has stopped the loop, and once shutdown() has returned no thread of a
\* feedback loop enters camera.acquire_image or set_laser_power.
C37_ShutdownQuiesces ==
    [][ Cardinality(AppFreeLoops) >= MaxLoops - 1 =>
          /\ (app.caller \in {"shutdown_camera", "shutdown_adwin"}) =>
                /\ app.feedback_loop = 0
                /\ \A l \in LoopIds : AppAlive(l) => app.loops[l].stop_event
          /\ app.caller = "down" =>
                \A l \in LoopIds :
                   app'.loops[l].pc \in {"acquire", "board"} =>
                      app'.loops[l].pc = app.loops[l].pc
      ]_vars


=============================================================================
